---- MODULE Spec2Model ----
(***************************************************************************)
(* The continuous keyword-discovery job scheduler (JobRunnerService).      *)
(*                                                                         *)
(* The store (prisma) is a set of job rows and a bag of result rows; every *)
(* prisma call is one atomic step.  Everything the service does between    *)
(* two awaits runs without interruption (one JavaScript thread), so the    *)
(* synchronous continuation that follows a store call is part of the step  *)
(* of that call.  Each executeJob invocation is a "run" (its closure: the  *)
(* usedKeywords array, cycleCount, the interval handle); each first cycle  *)
(* and each interval callback in flight is a "task"; each HTTP request in  *)
(* flight between two store calls is a "call".                             *)
(***************************************************************************)
EXTENDS Integers, Sequences, FiniteSets, Bags, TLC

\* Jobs are rows keyed by id and never share state; one id shows every
\* per-job behaviour.
JobIds == {"j1"}

\* Keyword strings the suggestion provider can return.
Keywords == {"a", "A"}

MaxTotalCycles == 2
MaxBatch == 1
MaxCalls == 3
MaxPending == 1
MaxTicks == 2
MaxRestarts == 1
LongCycles == 3
LongBatch == 2
MaxCount == 2
MaxBatchLen == 2
MaxPosts == 2
MaxApps == 2

\* The scores are numbers of 0..100.
ScoreMax == 100

VARIABLES
    jobs,        \* store: job id -> row of KeywordSearchJob
    results,     \* store: bag of KeywordSearchResult rows
    runs,        \* executeJob invocations of this process (closures)
    tasks,       \* bag of first cycles / interval callbacks in flight
    calls,       \* bag of HTTP requests between two store calls
    runningJobs, \* this.runningJobs: job id -> run whose interval is registered
    initQ,       \* initialize(): job rows still to be resumed
    nCalls, nTicks, nRestarts,
    maxStarted,  \* history: highest cycle number whose execution began, per job
    atStop,      \* history: currentCycle/usedKeywords left by the last stop
    resp,        \* the response of the step just taken, or NoResp
    gen,         \* one generateKeywords call looked at on its own
    calc         \* one call of a scoring function looked at on its own

vars == <<jobs, results, runs, tasks, calls, runningJobs, initQ,
          nCalls, nTicks, nRestarts, maxStarted, atStop, resp, gen,
          calc>>

----------------------------------------------------------------------------
\* String.prototype.toLowerCase on the keyword alphabet.
Lower(k) == IF k = "A" THEN "a" ELSE k

\* Array.prototype.includes
Includes(arr, x) == \E n \in 1..Len(arr) : arr[n] = x

Max(a, b) == IF a >= b THEN a ELSE b

\* A row that was never created / was deleted is a row with no data.
NoRow(st) == [status |-> st, currentCycle |-> 0, totalCycles |-> 0,
              searchesPerBatch |-> 0, usedKeywords |-> << >>]

Exists(j) == jobs[j].status \notin {"none", "deleted"}

NoResp == [op |-> "none", job |-> "none", res |-> "none"]
Resp(op, j, res) == [op |-> op, job |-> j, res |-> res]

NoRun == 0

\* atStop[j]: what the last successful stop of job j left in the row, and
\* whether a start has resumed the job since.
NoStop == [stopped |-> FALSE, resumed |-> FALSE, currentCycle |-> 0,
           usedKeywords |-> << >>]
StopMark(row) == [stopped |-> TRUE, resumed |-> FALSE,
                  currentCycle |-> row.currentCycle,
                  usedKeywords |-> row.usedKeywords]

\* pcs of a task that is inside executeCycle
CyclePcs == {"gen", "analyze", "sleep", "commit"}

\* The closure of an executeJob invocation that no timer and no pending
\* callback refers to any more is garbage: its slot is free for reuse.
DeadRun == [job |-> "none", used |-> << >>, cycleCount |-> 0, total |-> 0,
            batch |-> 0, timer |-> "none"]

Live(rs, ts, r) == rs[r].timer = "armed" \/ \E t \in BagToSet(ts) : t.run = r

RECURSIVE Trim(_)
Trim(rs) == IF rs # << >> /\ rs[Len(rs)] = DeadRun
            THEN Trim(SubSeq(rs, 1, Len(rs) - 1)) ELSE rs

Collect(rs, ts) ==
    Trim([r \in 1..Len(rs) |-> IF Live(rs, ts, r) THEN rs[r] ELSE DeadRun])

\* The slot a new closure takes.
FreeSlot(rs) == IF \E r \in 1..Len(rs) : rs[r] = DeadRun
                THEN CHOOSE r \in 1..Len(rs) :
                        rs[r] = DeadRun /\ \A q \in 1..(r - 1) : rs[q] # DeadRun
                ELSE Len(rs) + 1

Task(r, kind, pc, cyc) ==
    [run |-> r, kind |-> kind, pc |-> pc, cyc |-> cyc,
     kws |-> << >>, i |-> 0, snap |-> << >>]

TasksOf(j) == {t \in BagToSet(tasks) : runs[t.run].job = j}

\* number of executeCycle invocations of job j in progress
CyclesInProgress(j) ==
    LET S == {t \in TasksOf(j) : t.pc \in CyclePcs}
        RECURSIVE Sum(_)
        Sum(T) == IF T = {} THEN 0
                  ELSE LET t == CHOOSE x \in T : TRUE
                       IN CopiesIn(t, tasks) + Sum(T \ {t})
    IN Sum(S)

\* No scoring function is being looked at.
CalcIdle == [fn |-> "idle", apps |-> << >>, len |-> 0, match |-> << >>,
             popularity |-> 0, difficulty |-> 0, out |-> << >>]

\* No generateKeywords call is being looked at.
GenIdle == [pc |-> "idle", strategy |-> "none", count |-> 0, used |-> << >>,
            keywords |-> << >>, attempt |-> 0, offered |-> {}, out |-> << >>]

----------------------------------------------------------------------------
Init ==
    /\ jobs = [j \in JobIds |-> NoRow("none")]
    /\ results = EmptyBag
    /\ runs = << >>
    /\ tasks = EmptyBag
    /\ calls = EmptyBag
    /\ runningJobs = [j \in JobIds |-> NoRun]
    /\ initQ = << >>
    /\ nCalls = 0
    /\ nTicks = 0
    /\ nRestarts = 0
    /\ maxStarted = [j \in JobIds |-> 0]
    /\ atStop = [j \in JobIds |-> NoStop]
    /\ resp = NoResp
    /\ gen = GenIdle
    /\ calc = CalcIdle

\* createJob behind POST /api/jobs (validated config).
CreateJob(j, total, batch) ==
    /\ jobs[j].status = "none"
    /\ jobs' = [jobs EXCEPT ![j] =
                  [status |-> "pending", currentCycle |-> 0,
                   totalCycles |-> total, searchesPerBatch |-> batch,
                   usedKeywords |-> << >>]]
    /\ resp' = Resp("create", j, "Created")
    /\ UNCHANGED <<results, runs, tasks, calls, runningJobs, initQ,
                   nCalls, nTicks, nRestarts, maxStarted, atStop>>
    /\ UNCHANGED gen
    /\ UNCHANGED calc

----------------------------------------------------------------------------
\* executeJob line 169 without the "+ 1".
StartCycleSame(job) == Max(job.currentCycle, 0)

\* executeJob line 169: the cycle number to begin with.
StartCycle(job) == Max(job.currentCycle, 0) + 1

\* executeJob lines 163-182: the closure of one invocation, made from the
\* row it was handed.
NewRun(j, job) ==
    [job |-> j, used |-> job.usedKeywords, cycleCount |-> StartCycle(job),
     total |-> job.totalCycles, batch |-> job.searchesPerBatch,
     timer |-> "none"]

\* The task executeJob awaits first: cycle startCycle, or completeJob.
FirstTask(r, job) ==
    IF StartCycle(job) <= job.totalCycles
    THEN Task(r, "first", "gen", StartCycle(job))
    ELSE Task(r, "first", "complete", 0)

\* executeJob(job) up to its first await, called for job id j.
ExecuteJobBegin(j, job) ==
    LET r == FreeSlot(runs)
        t == FirstTask(r, job)
    IN /\ runs' = IF r > Len(runs) THEN Append(runs, NewRun(j, job))
                  ELSE [runs EXCEPT ![r] = NewRun(j, job)]
       /\ tasks' = tasks (+) SetToBag({t})
       /\ maxStarted' = IF t.pc = "gen"
                        THEN [maxStarted EXCEPT ![j] = Max(@, t.cyc)]
                        ELSE maxStarted

\* startJob's update without the status.
StartedRowNoStatus(row) == row

\* The rows the service writes.
StartedRow(row) == [row EXCEPT !.status = "running"]
PausedRow(row) == [row EXCEPT !.status = "paused"]
CompletedRow(row) == [row EXCEPT !.status = "completed"]

\* A request is accepted while the budgets of the model allow it.
CanCall == nCalls < MaxCalls /\ BagCardinality(calls) < MaxPending

Call(op, j, pc, snap) == [op |-> op, job |-> j, pc |-> pc, snap |-> snap]

\* startJob up to the answer of findUnique: ok, or the error it throws.
StartCheck(j) ==
    IF ~Exists(j) THEN "NotFound"
    ELSE IF jobs[j].status = "running" THEN "AlreadyRunning"
    ELSE "ok"

\* startJob behind POST /:id/start: findUnique and the two checks.
StartFind(j) ==
    /\ CanCall
    /\ nCalls' = nCalls + 1
    /\ IF StartCheck(j) = "ok"
       THEN /\ resp' = Resp("start", j, "Found")
            /\ calls' = calls (+) SetToBag({Call("start", j, "update", jobs[j])})
       ELSE /\ resp' = Resp("start", j, StartCheck(j))
            /\ calls' = calls
    /\ UNCHANGED <<jobs, results, runs, tasks, runningJobs, initQ,
                   nTicks, nRestarts, maxStarted, atStop>>
    /\ UNCHANGED gen
    /\ UNCHANGED calc

\* startJob: the status update, then executeJob(job) on the row read before
\* (lines 106-120).  The update of a deleted row throws.
StartUpdate(c) ==
    /\ c \in BagToSet(calls) /\ c.op = "start" /\ c.pc = "update"
    /\ calls' = calls (-) SetToBag({c})
    /\ IF Exists(c.job)
       THEN /\ jobs' = [jobs EXCEPT ![c.job] = StartedRow(@)]
            /\ ExecuteJobBegin(c.job, c.snap)
            /\ atStop' = [atStop EXCEPT ![c.job].resumed = @ \/ atStop[c.job].stopped]
            /\ resp' = Resp("start", c.job, "Started")
       ELSE /\ resp' = Resp("start", c.job, "Error")
            /\ UNCHANGED <<jobs, runs, tasks, maxStarted, atStop>>
    /\ UNCHANGED <<results, runningJobs, initQ, nCalls, nTicks, nRestarts>>
    /\ UNCHANGED gen
    /\ UNCHANGED calc

----------------------------------------------------------------------------
\* stopJob lines 140-145: clear the registered interval of job j.
ClearRegistered(j) ==
    /\ runs' = IF runningJobs[j] # NoRun
               THEN Collect([runs EXCEPT ![runningJobs[j]].timer = "cleared"],
                            tasks)
               ELSE runs
    /\ runningJobs' = [runningJobs EXCEPT ![j] = NoRun]

\* stopJob without the check of line 135.
StopCheckNoStatus(j) == IF ~Exists(j) THEN "NotFound" ELSE "ok"

\* stopJob up to the answer of findUnique: ok, or the error it throws.
StopCheck(j) ==
    IF ~Exists(j) THEN "NotFound"
    ELSE IF jobs[j].status # "running" THEN "NotRunning"
    ELSE "ok"

\* stopJob behind POST /:id/stop: findUnique, the checks, the timers.
StopFind(j) ==
    /\ CanCall
    /\ nCalls' = nCalls + 1
    /\ IF StopCheck(j) = "ok"
       THEN /\ ClearRegistered(j)
            /\ calls' = calls (+)
                           SetToBag({Call("stop", j, "update", NoRow("none"))})
            /\ resp' = Resp("stop", j, "Found")
       ELSE /\ resp' = Resp("stop", j, StopCheck(j))
            /\ UNCHANGED <<runs, runningJobs, calls>>
    /\ UNCHANGED <<jobs, results, tasks, initQ, nTicks, nRestarts,
                   maxStarted, atStop>>
    /\ UNCHANGED gen
    /\ UNCHANGED calc

\* stopJob lines 148-153: the status update (it throws if the row is gone).
StopUpdate(c) ==
    /\ c \in BagToSet(calls) /\ c.op = "stop" /\ c.pc = "update"
    /\ calls' = calls (-) SetToBag({c})
    /\ IF Exists(c.job)
       THEN /\ jobs' = [jobs EXCEPT ![c.job] = PausedRow(@)]
            /\ atStop' = [atStop EXCEPT ![c.job] = StopMark(jobs[c.job])]
            /\ resp' = Resp("stop", c.job, "Stopped")
       ELSE /\ UNCHANGED <<jobs, atStop>>
            /\ resp' = Resp("stop", c.job, "Error")
    /\ UNCHANGED <<results, runs, tasks, runningJobs, initQ,
                   nCalls, nTicks, nRestarts, maxStarted>>
    /\ UNCHANGED gen
    /\ UNCHANGED calc

\* deleteJob behind DELETE /:id: findUnique; a running job is stopped first.
DeleteFind(j) ==
    /\ CanCall
    /\ nCalls' = nCalls + 1
    /\ calls' = calls (+) SetToBag({Call("delete", j,
                   IF Exists(j) /\ jobs[j].status = "running"
                   THEN "stopfind" ELSE "delete", NoRow("none"))})
    /\ resp' = Resp("delete", j, "Found")
    /\ UNCHANGED <<jobs, results, runs, tasks, runningJobs, initQ,
                   nTicks, nRestarts, maxStarted, atStop>>
    /\ UNCHANGED gen
    /\ UNCHANGED calc

\* deleteJob -> stopJob: findUnique, the checks, the timers.  An error of
\* stopJob rejects deleteJob (HTTP 500) and the row stays.
DeleteStopFind(c) ==
    /\ c \in BagToSet(calls) /\ c.op = "delete" /\ c.pc = "stopfind"
    /\ IF StopCheck(c.job) = "ok"
       THEN /\ ClearRegistered(c.job)
            /\ calls' = (calls (-) SetToBag({c}))
                           (+) SetToBag({[c EXCEPT !.pc = "stopupdate"]})
            /\ resp' = NoResp
       ELSE /\ calls' = calls (-) SetToBag({c})
            /\ resp' = Resp("delete", c.job, "Error")
            /\ UNCHANGED <<runs, runningJobs>>
    /\ UNCHANGED <<jobs, results, tasks, initQ, nCalls, nTicks, nRestarts,
                   maxStarted, atStop>>
    /\ UNCHANGED gen
    /\ UNCHANGED calc

\* deleteJob -> stopJob: the status update.
DeleteStopUpdate(c) ==
    /\ c \in BagToSet(calls) /\ c.op = "delete" /\ c.pc = "stopupdate"
    /\ IF Exists(c.job)
       THEN /\ jobs' = [jobs EXCEPT ![c.job] = PausedRow(@)]
            /\ atStop' = [atStop EXCEPT ![c.job] = StopMark(jobs[c.job])]
            /\ calls' = (calls (-) SetToBag({c}))
                           (+) SetToBag({[c EXCEPT !.pc = "delete"]})
            /\ resp' = NoResp
       ELSE /\ UNCHANGED <<jobs, atStop>>
            /\ calls' = calls (-) SetToBag({c})
            /\ resp' = Resp("delete", c.job, "Error")
    /\ UNCHANGED <<results, runs, tasks, runningJobs, initQ,
                   nCalls, nTicks, nRestarts, maxStarted>>
    /\ UNCHANGED gen
    /\ UNCHANGED calc

\* rows of the result bag that belong to job j
RowsOf(j) == {row \in BagToSet(results) : row.jobId = j}

\* the result bag without the rows of job j (ON DELETE CASCADE)
WithoutRowsOf(j) ==
    [row \in BagToSet(results) \ RowsOf(j) |-> results[row]]

\* deleteJob lines 635-637: delete the row; its results go with it.
DeleteExec(c) ==
    /\ c \in BagToSet(calls) /\ c.op = "delete" /\ c.pc = "delete"
    /\ calls' = calls (-) SetToBag({c})
    /\ IF Exists(c.job)
       THEN /\ jobs' = [jobs EXCEPT ![c.job] = NoRow("deleted")]
            /\ results' = WithoutRowsOf(c.job)
            /\ atStop' = [atStop EXCEPT ![c.job] = NoStop]
            /\ resp' = Resp("delete", c.job, "Deleted")
       ELSE /\ UNCHANGED <<jobs, results, atStop>>
            /\ resp' = Resp("delete", c.job, "Error")
    /\ UNCHANGED <<runs, tasks, runningJobs, initQ,
                   nCalls, nTicks, nRestarts, maxStarted>>
    /\ UNCHANGED gen
    /\ UNCHANGED calc

----------------------------------------------------------------------------
\* What generateKeywords can return for a request of count keywords: up to
\* count pairwise different strings whose lower-case form is not in used.
GenResults(count, used) ==
    {s \in UNION {[1..n -> Keywords] : n \in 0..count} :
        /\ \A a, b \in 1..Len(s) : a # b => s[a] # s[b]
        /\ \A a \in 1..Len(s) : ~Includes(used, Lower(s[a]))}

\* executeCycle lines 237-242: the first index from i on whose keyword is
\* not skipped as already used, or Len(kws)+1.
RECURSIVE Advance(_, _, _)
Advance(used, kws, i) ==
    IF i > Len(kws) THEN i
    ELSE IF Includes(used, Lower(kws[i])) THEN Advance(used, kws, i + 1)
    ELSE i

\* The task after the loop moved on to index i: analysing kws[i], or, past
\* the last keyword, the job update with the array as it is now.
LoopAt(t, used, kws, i) ==
    LET n == Advance(used, kws, i)
    IN IF n <= Len(kws)
       THEN [t EXCEPT !.pc = "analyze", !.kws = kws, !.i = n]
       ELSE [t EXCEPT !.pc = "commit", !.kws = << >>, !.i = 0, !.snap = used]

Replace(t, t2) == (tasks (-) SetToBag({t})) (+) SetToBag({t2})

\* executeCycle has returned to its caller: executeJob goes on to
\* setInterval and runningJobs.set (lines 184, 218); a callback just ends.
FinishCycle(t, runs0) ==
    /\ tasks' = tasks (-) SetToBag({t})
    /\ IF t.kind = "first"
       THEN /\ runs' = [runs0 EXCEPT ![t.run].timer = "armed"]
            /\ runningJobs' = [runningJobs EXCEPT ![runs[t.run].job] = t.run]
       ELSE /\ runs' = Collect(runs0, tasks')
            /\ runningJobs' = runningJobs

\* generateKeywords returns (lines 229-242).
GenReturn(t, kws) ==
    /\ t \in BagToSet(tasks) /\ t.pc = "gen"
    /\ kws \in GenResults(runs[t.run].batch, runs[t.run].used)
    /\ IF Len(kws) = 0
       THEN FinishCycle(t, runs)
       ELSE /\ tasks' = Replace(t, LoopAt(t, runs[t.run].used, kws, 1))
            /\ UNCHANGED <<runs, runningJobs>>
    /\ resp' = NoResp
    /\ UNCHANGED <<jobs, results, calls, initQ, nCalls, nTicks, nRestarts,
                   maxStarted, atStop>>
    /\ UNCHANGED gen
    /\ UNCHANGED calc

Row(j, kw, cyc, st) ==
    [jobId |-> j, keyword |-> kw, cycleNumber |-> cyc, status |-> st]

\* A catch block that leaves the loop.
AfterCatchBreak(t, used) ==
    [t EXCEPT !.pc = "commit", !.kws = << >>, !.i = 0, !.snap = used]

\* After the catch block of a keyword (lines 277-291) the loop goes on with
\* the next keyword.
AfterCatch(t, used) == LoopAt(t, used, t.kws, t.i + 1)

\* analyzeKeyword returned (ok) or threw, and the Result row is created
\* (lines 245-291).  Creating a row for a deleted job throws (foreign key):
\* from the try block that lands in the catch block, whose create throws
\* again, into the outer catch.
SaveResult(t, ok) ==
    /\ t \in BagToSet(tasks) /\ t.pc = "analyze"
    /\ LET r == t.run
           j == runs[r].job
           kw == t.kws[t.i]
       IN IF ~Exists(j)
          THEN /\ FinishCycle(t, runs)
               /\ results' = results
          ELSE IF ok
          THEN /\ results' = results (+) SetToBag({Row(j, kw, t.cyc, "success")})
               /\ runs' = [runs EXCEPT ![r].used = Append(@, Lower(kw))]
               /\ tasks' = Replace(t, [t EXCEPT !.pc = "sleep"])
               /\ runningJobs' = runningJobs
          ELSE /\ results' = results (+) SetToBag({Row(j, kw, t.cyc, "error")})
               /\ tasks' = Replace(t, AfterCatch(t, runs[r].used))
               /\ UNCHANGED <<runs, runningJobs>>
    /\ resp' = Resp("analyze", runs[t.run].job,
                    IF ~Exists(runs[t.run].job) THEN "lost"
                    ELSE IF ok THEN "success" ELSE "error")
    /\ UNCHANGED <<jobs, calls, initQ, nCalls, nTicks, nRestarts,
                   maxStarted, atStop>>
    /\ UNCHANGED gen
    /\ UNCHANGED calc

\* sleep(2000) is over (line 275): next keyword.
SleepReturn(t) ==
    /\ t \in BagToSet(tasks) /\ t.pc = "sleep"
    /\ tasks' = Replace(t, LoopAt(t, runs[t.run].used, t.kws, t.i + 1))
    /\ resp' = NoResp
    /\ UNCHANGED <<jobs, results, runs, calls, runningJobs, initQ,
                   nCalls, nTicks, nRestarts, maxStarted, atStop>>
    /\ UNCHANGED gen
    /\ UNCHANGED calc

\* The row executeCycle writes at the end of a cycle (lines 295-303).
CommittedRow(row, t) ==
    [row EXCEPT !.usedKeywords = t.snap, !.currentCycle = t.cyc]

\* The outer catch that marks the job failed.
CycleFailedRowEscalated(row) == [row EXCEPT !.status = "failed"]

\* The row after a cycle ended in the outer catch (lines 307-309): the
\* error is logged and nothing is written.
CycleFailedRow(row) == row

\* The job update at the end of the cycle; ok = FALSE is a failing store
\* write, and the update of a deleted row fails too (outer catch, line 307).
Commit(t, ok) ==
    /\ t \in BagToSet(tasks) /\ t.pc = "commit"
    /\ LET j == runs[t.run].job
       IN /\ jobs' = IF ~Exists(j) THEN jobs
                     ELSE IF ok THEN [jobs EXCEPT ![j] = CommittedRow(@, t)]
                     ELSE [jobs EXCEPT ![j] = CycleFailedRow(@)]
          /\ resp' = Resp("commit", j,
                          IF ok /\ Exists(j) THEN "committed" ELSE "failed")
    /\ FinishCycle(t, runs)
    /\ UNCHANGED <<results, calls, initQ, nCalls, nTicks, nRestarts,
                   maxStarted, atStop>>
    /\ UNCHANGED gen
    /\ UNCHANGED calc

----------------------------------------------------------------------------
\* The interval of run r fires (line 184): cycleCount++ and findUnique is
\* issued.
TickFire(r) ==
    /\ r \in 1..Len(runs) /\ runs[r].timer = "armed"
    /\ nTicks < MaxTicks
    /\ nTicks' = nTicks + 1
    /\ runs' = [runs EXCEPT ![r].cycleCount = @ + 1]
    /\ tasks' = tasks (+) SetToBag({Task(r, "tick", "read", 0)})
    /\ resp' = NoResp
    /\ UNCHANGED <<jobs, results, calls, runningJobs, initQ, nCalls,
                   nRestarts, maxStarted, atStop>>
    /\ UNCHANGED gen
    /\ UNCHANGED calc

\* The callback with "cycleCount > totalCycles + 1" in line 200.
TickDecisionLate(j, cycleCount, total) ==
    IF ~Exists(j) \/ jobs[j].status # "running" THEN "quit"
    ELSE IF cycleCount > total + 1 THEN "complete"
    ELSE "cycle"

\* The callback without the status test of line 192.
TickDecisionNoStatus(j, cycleCount, total) ==
    IF ~Exists(j) THEN "quit"
    ELSE IF cycleCount > total THEN "complete"
    ELSE "cycle"

\* What the callback does with the row it read (lines 192-209).
TickDecision(j, cycleCount, total) ==
    IF ~Exists(j) \/ jobs[j].status # "running" THEN "quit"
    ELSE IF cycleCount > total THEN "complete"
    ELSE "cycle"

\* The callback's findUnique answers (lines 188-209).
TickRead(t) ==
    /\ t \in BagToSet(tasks) /\ t.pc = "read"
    /\ LET r == t.run
           j == runs[r].job
           d == TickDecision(j, runs[r].cycleCount, runs[r].total)
       IN /\ IF d = "quit"
             THEN /\ tasks' = tasks (-) SetToBag({t})
                  /\ runs' = Collect([runs EXCEPT ![r].timer = "cleared"],
                                     tasks')
                  /\ runningJobs' = [runningJobs EXCEPT ![j] = NoRun]
                  /\ maxStarted' = maxStarted
             ELSE IF d = "complete"
             THEN /\ tasks' = Replace(t, [t EXCEPT !.pc = "complete"])
                  /\ UNCHANGED <<runs, runningJobs, maxStarted>>
             ELSE /\ tasks' = Replace(t, [t EXCEPT !.pc = "gen",
                                                   !.cyc = runs[r].cycleCount])
                  /\ maxStarted' = [maxStarted EXCEPT
                                       ![j] = Max(@, runs[r].cycleCount)]
                  /\ UNCHANGED <<runs, runningJobs>>
          /\ resp' = Resp("tick", j, d)
    /\ UNCHANGED <<jobs, results, calls, initQ, nCalls, nTicks, nRestarts,
                   atStop>>
    /\ UNCHANGED gen
    /\ UNCHANGED calc

\* completeJob's update (lines 498-504), awaited by executeJob (line 176)
\* or by the callback (lines 201-203).  On a deleted row it throws and the
\* caller's next statements are not reached.
CompleteJob(t) ==
    /\ t \in BagToSet(tasks) /\ t.pc = "complete"
    /\ tasks' = tasks (-) SetToBag({t})
    /\ LET r == t.run
           j == runs[r].job
       IN IF Exists(j)
          THEN /\ jobs' = [jobs EXCEPT ![j] = CompletedRow(@)]
               /\ IF t.kind = "tick"
                  THEN /\ runs' = Collect([runs EXCEPT ![r].timer = "cleared"],
                                          tasks')
                       /\ runningJobs' = [runningJobs EXCEPT ![j] = NoRun]
                  ELSE /\ runs' = Collect(runs, tasks')
                       /\ runningJobs' = runningJobs
          ELSE /\ runs' = Collect(runs, tasks')
               /\ UNCHANGED <<jobs, runningJobs>>
    /\ resp' = NoResp
    /\ UNCHANGED <<results, calls, initQ, nCalls, nTicks, nRestarts,
                   maxStarted, atStop>>
    /\ UNCHANGED gen
    /\ UNCHANGED calc

----------------------------------------------------------------------------
\* The job ids in the order findMany lists them.
RECURSIVE SeqOf(_)
SeqOf(S) == IF S = {} THEN << >>
            ELSE LET x == CHOOSE y \in S : TRUE IN <<x>> \o SeqOf(S \ {x})

\* initialize() listing every job that exists.
ListedAny(j) == Exists(j)

\* The filter of findMany (line 26).
Listed(j) == jobs[j].status = "running"

\* initialize(), lines 34-42: what is done with a listed row.
ResumeBranch(row) ==
    IF row.currentCycle >= row.totalCycles THEN "complete" ELSE "execute"

\* The rows findMany answers with (lines 25-27).
ListedRows ==
    LET ids == SeqOf({j \in JobIds : Listed(j)})
    IN [n \in 1..Len(ids) |-> [id |-> ids[n], row |-> jobs[ids[n]]]]

\* The process stops and starts again: timers, closures and requests in
\* flight are gone; initialize() lists the jobs stored as running
\* (lines 25-27) and its loop runs up to its first await: executeJob of the
\* first row begins at once, completeJob of the first row is awaited.
Restart ==
    /\ nRestarts < MaxRestarts
    /\ nRestarts' = nRestarts + 1
    /\ calls' = EmptyBag
    /\ runningJobs' = [j \in JobIds |-> NoRun]
    /\ IF ListedRows # << >> /\ ResumeBranch(Head(ListedRows).row) = "execute"
       THEN LET id == Head(ListedRows).id
                row == Head(ListedRows).row
                t == FirstTask(1, row)
            IN /\ runs' = <<NewRun(id, row)>>
               /\ tasks' = SetToBag({t})
               /\ maxStarted' = [maxStarted EXCEPT ![id] = Max(@, t.cyc)]
               /\ initQ' = Tail(ListedRows)
               /\ resp' = Resp("resume", id, "execute")
       ELSE /\ runs' = << >>
            /\ tasks' = EmptyBag
            /\ maxStarted' = maxStarted
            /\ initQ' = ListedRows
            /\ resp' = Resp("resume", "none", "listed")
    /\ UNCHANGED <<jobs, results, nCalls, nTicks, atStop>>
    /\ UNCHANGED gen
    /\ UNCHANGED calc

\* initialize(), one job of the list (lines 32-43): completeJob, or
\* executeJob on the row as listed.  completeJob on a deleted row throws
\* into the catch of line 48, which ends the loop.
InitStep ==
    /\ initQ # << >>
    /\ LET id == Head(initQ).id
           row == Head(initQ).row
       IN IF ResumeBranch(row) = "complete"
          THEN /\ IF Exists(id)
                  THEN /\ jobs' = [jobs EXCEPT ![id] = CompletedRow(@)]
                       /\ initQ' = Tail(initQ)
                  ELSE /\ jobs' = jobs
                       /\ initQ' = << >>
               /\ UNCHANGED <<runs, tasks, maxStarted>>
               /\ resp' = Resp("resume", id, "complete")
          ELSE /\ ExecuteJobBegin(id, row)
               /\ initQ' = Tail(initQ)
               /\ jobs' = jobs
               /\ resp' = Resp("resume", id, "execute")
    /\ UNCHANGED <<results, calls, runningJobs, nCalls, nTicks, nRestarts,
                   atStop>>
    /\ UNCHANGED gen
    /\ UNCHANGED calc

----------------------------------------------------------------------------
\* The steps of one running process: requests, cycles and timers.
Serve ==
    \/ \E j \in JobIds, total \in 1..MaxTotalCycles, batch \in 1..MaxBatch :
          CreateJob(j, total, batch)
    \/ \E j \in JobIds : StartFind(j)
    \/ \E c \in BagToSet(calls) : StartUpdate(c)
    \/ \E j \in JobIds : StopFind(j)
    \/ \E c \in BagToSet(calls) : StopUpdate(c)
    \/ \E j \in JobIds : DeleteFind(j)
    \/ \E c \in BagToSet(calls) : DeleteStopFind(c)
    \/ \E c \in BagToSet(calls) : DeleteStopUpdate(c)
    \/ \E c \in BagToSet(calls) : DeleteExec(c)
    \/ \E t \in BagToSet(tasks) :
          \E kws \in GenResults(MaxBatch, << >>) : GenReturn(t, kws)
    \/ \E t \in BagToSet(tasks), ok \in BOOLEAN : SaveResult(t, ok)
    \/ \E t \in BagToSet(tasks) : SleepReturn(t)
    \/ \E t \in BagToSet(tasks), ok \in BOOLEAN : Commit(t, ok)
    \/ \E r \in 1..Len(runs) : TickFire(r)
    \/ \E t \in BagToSet(tasks) : TickRead(t)
    \/ \E t \in BagToSet(tasks) : CompleteJob(t)

Next ==
    \/ Serve
    \/ Restart
    \/ InitStep

Spec == Init /\ [][Next]_vars

\* One process that is never stopped.
SpecOneProcess == Init /\ [][Serve]_vars

----------------------------------------------------------------------------
\* generateKeywords (lines 315-434) on its own: the strategy, the count and
\* the usedKeywords array are the inputs, every answer of the suggestion
\* provider (aiService.generateCategoryKeywords) is a step.

\* Strings the provider can suggest: a word, the same word in another case
\* and with a leading blank, another word, the empty string.
GenWords == {"a", "A", " a", "b", ""}

\* String.prototype.trim on GenWords.
TrimStr(k) == IF k = " a" THEN "a" ELSE k

\* kw.toLowerCase().trim() (lines 339, 370, 403).
Norm(k) == TrimStr(Lower(k))

Strategies == {"random", "category", "trending"}

\* The usedKeywords arrays a call is given.
UsedInputs == {<< >>, <<"a">>, <<"b">>, <<"a", "b">>}

\* The arrays the provider can answer with.
Batches == UNION {[1..n -> GenWords] : n \in 0..MaxBatchLen}

serviceVars == <<jobs, results, runs, tasks, calls, runningJobs, initQ,
                 nCalls, nTicks, nRestarts, maxStarted, atStop, resp>>

Min(a, b) == IF a <= b THEN a ELSE b

\* Math.ceil(a / b)
CeilDiv(a, b) == (a + b - 1) \div b

\* The filter without the test against usedKeywords.
FreshNoUsed(kw, used, keywords) ==
    Norm(kw) # "" /\ ~Includes(keywords, kw)

\* The filter of lines 338-341, 369-372, 402-405.
Fresh(kw, used, keywords) ==
    Norm(kw) # "" /\ ~Includes(used, Norm(kw)) /\ ~Includes(keywords, kw)

Filter(batch, used, keywords) ==
    SelectSeq(batch, LAMBDA kw : Fresh(kw, used, keywords))

\* Array.prototype.slice(0, n)
Take(arr, n) == SubSeq(arr, 1, Min(n, Len(arr)))

\* What is kept of a filtered answer (lines 342, 374, 406).
SliceOf(strategy, count, arr) ==
    IF strategy = "random" THEN Take(arr, CeilDiv(count, 3))
    ELSE IF strategy = "trending" THEN Take(arr, CeilDiv(count, 5))
    ELSE arr

\* The number of provider calls a strategy makes at most (lines 322,
\* 357, 387).
Rounds(strategy, count) ==
    IF strategy = "random" THEN Min(count * 2, 15)
    ELSE IF strategy = "trending" THEN 5
    ELSE 3

\* The loop goes into another round (lines 326, 360, 391).
Looping(g) ==
    /\ g.pc = "loop"
    /\ Len(g.keywords) < g.count
    /\ g.attempt < Rounds(g.strategy, g.count)

\* [...new Set(arr)]: the first occurrence of every string, in order.
RECURSIVE Unique(_)
Unique(arr) ==
    IF arr = << >> THEN << >>
    ELSE LET front == Unique(SubSeq(arr, 1, Len(arr) - 1))
         IN IF Includes(front, arr[Len(arr)]) THEN front
            ELSE Append(front, arr[Len(arr)])

\* The state of the service at construction, with a generateKeywords call
\* on every input of the bounds.
InitGenerate ==
    /\ jobs = [j \in JobIds |-> NoRow("none")]
    /\ results = EmptyBag
    /\ runs = << >>
    /\ tasks = EmptyBag
    /\ calls = EmptyBag
    /\ runningJobs = [j \in JobIds |-> NoRun]
    /\ initQ = << >>
    /\ nCalls = 0
    /\ nTicks = 0
    /\ nRestarts = 0
    /\ maxStarted = [j \in JobIds |-> 0]
    /\ atStop = [j \in JobIds |-> NoStop]
    /\ resp = NoResp
    /\ \E strategy \in Strategies, count \in 1..MaxCount, used \in UsedInputs :
          gen = [GenIdle EXCEPT !.pc = "loop", !.strategy = strategy,
                                !.count = count, !.used = used]
    /\ calc = CalcIdle

\* The provider answers one call with the array batch: filter, slice, push.
ProviderAnswers(batch) ==
    /\ Looping(gen)
    /\ gen' = [gen EXCEPT
                 !.keywords = @ \o SliceOf(gen.strategy, gen.count,
                                     Filter(batch, gen.used, gen.keywords)),
                 !.attempt = @ + 1,
                 !.offered = @ \cup {batch[n] : n \in 1..Len(batch)}]
    /\ UNCHANGED serviceVars
    /\ UNCHANGED calc

\* The provider call throws: the inner catch goes to the next round.
ProviderThrows ==
    /\ Looping(gen)
    /\ gen' = [gen EXCEPT !.attempt = @ + 1]
    /\ UNCHANGED serviceVars
    /\ UNCHANGED calc

\* The loop is over: lines 422-428.
GenerateReturns ==
    /\ gen.pc = "loop" /\ ~Looping(gen)
    /\ gen' = [gen EXCEPT !.pc = "done",
                          !.out = Take(Unique(gen.keywords), gen.count)]
    /\ UNCHANGED serviceVars
    /\ UNCHANGED calc

Generate ==
    \/ \E batch \in Batches : ProviderAnswers(batch)
    \/ ProviderThrows
    \/ GenerateReturns

SpecGenerate == InitGenerate /\ [][Generate]_vars

----------------------------------------------------------------------------
\* POST /api/jobs on its own: the validators of the route (lines 57-67),
\* then createJob (lines 56-87).  A field of the body is << >> when it is
\* absent and <<v>> when it is given.

\* The ids prisma hands out, in this order.
PostIdSeq == <<"j1", "j2">>
PostIds == {PostIdSeq[n] : n \in 1..Len(PostIdSeq)}

IntFields(lo, hi) == {<< >>, <<lo - 1>>, <<lo>>, <<hi>>, <<hi + 1>>}

\* The request bodies.
Configs ==
    [name : {<< >>, <<"">>, <<"n">>},
     searchesPerBatch : IntFields(1, 10),
     intervalMinutes : IntFields(1, 1440),
     totalCycles : IntFields(1, 1000),
     strategy : {<< >>, <<"random">>, <<"category">>, <<"trending">>,
                 <<"other">>}]

\* optional().isInt({ min, max })
OptionalInt(f, lo, hi) ==
    IF f = << >> THEN TRUE ELSE f[1] >= lo /\ f[1] <= hi

\* optional().isIn([...])
OptionalIn(f, S) == IF f = << >> THEN TRUE ELSE f[1] \in S

\* trim().notEmpty()
NotEmpty(f) == IF f = << >> THEN FALSE ELSE f[1] # ""

\* The validators without the one of totalCycles.
ValidateNoTotal(cfg) ==
    /\ NotEmpty(cfg.name)
    /\ OptionalInt(cfg.searchesPerBatch, 1, 10)
    /\ OptionalInt(cfg.intervalMinutes, 1, 1440)
    /\ OptionalIn(cfg.strategy, {"random", "category", "trending"})

\* The validators of the route and the validate middleware.
Validate(cfg) ==
    /\ NotEmpty(cfg.name)
    /\ OptionalInt(cfg.searchesPerBatch, 1, 10)
    /\ OptionalInt(cfg.intervalMinutes, 1, 1440)
    /\ OptionalInt(cfg.totalCycles, 1, 1000)
    /\ OptionalIn(cfg.strategy, {"random", "category", "trending"})

\* A destructuring default of createJob (lines 57-67).
Default(f, d) == IF f = << >> THEN d ELSE f[1]

\* The row prisma creates (lines 69-83, and the defaults of the schema).
CreatedRow(cfg) ==
    [status |-> "pending", currentCycle |-> 0, totalKeywords |-> 0,
     usedKeywords |-> << >>,
     name |-> cfg.name[1],
     searchesPerBatch |-> Default(cfg.searchesPerBatch, 1),
     intervalMinutes |-> Default(cfg.intervalMinutes, 15),
     totalCycles |-> Default(cfg.totalCycles, 10),
     strategy |-> Default(cfg.strategy, "random")]

\* The id prisma gives a new row: one that no row has.
NewId ==
    PostIdSeq[CHOOSE n \in 1..Len(PostIdSeq) :
                 /\ jobs[PostIdSeq[n]].status = "none"
                 /\ \A m \in 1..(n - 1) : jobs[PostIdSeq[m]].status # "none"]

PostResp(j, res, cfg) == [op |-> "create", job |-> j, res |-> res, cfg |-> cfg]

InitPost ==
    /\ jobs = [j \in PostIds |-> NoRow("none")]
    /\ results = EmptyBag
    /\ runs = << >>
    /\ tasks = EmptyBag
    /\ calls = EmptyBag
    /\ runningJobs = [j \in PostIds |-> NoRun]
    /\ initQ = << >>
    /\ nCalls = 0
    /\ nTicks = 0
    /\ nRestarts = 0
    /\ maxStarted = [j \in PostIds |-> 0]
    /\ atStop = [j \in PostIds |-> NoStop]
    /\ resp = NoResp
    /\ gen = GenIdle
    /\ calc = CalcIdle

\* POST /api/jobs is answered 400 by the validate middleware.
PostRejected(cfg) ==
    /\ nCalls < MaxPosts
    /\ ~Validate(cfg)
    /\ nCalls' = nCalls + 1
    /\ resp' = PostResp("none", "Invalid", cfg)
    /\ UNCHANGED <<jobs, results, runs, tasks, calls, runningJobs, initQ,
                   nTicks, nRestarts, maxStarted, atStop, gen>>
    /\ UNCHANGED calc

\* POST /api/jobs passes the validators and createJob creates the row.
PostCreated(cfg) ==
    /\ nCalls < MaxPosts
    /\ Validate(cfg)
    /\ \E j \in PostIds : jobs[j].status = "none"
    /\ nCalls' = nCalls + 1
    /\ jobs' = [jobs EXCEPT ![NewId] = CreatedRow(cfg)]
    /\ resp' = PostResp(NewId, "Created", cfg)
    /\ UNCHANGED <<results, runs, tasks, calls, runningJobs, initQ,
                   nTicks, nRestarts, maxStarted, atStop, gen>>
    /\ UNCHANGED calc

Post ==
    \/ \E cfg \in Configs : PostRejected(cfg)
    \/ \E cfg \in Configs : PostCreated(cfg)

SpecPost == InitPost /\ [][Post]_vars

(***************************************************************************)
(* The scoring functions: calculateDifficulty and estimatePopularity of    *)
(* keyword.service.js, calculateOpportunityScore of opportunity.service.js *)
(* and the opportunity score executeCycle stores with a result.  Their     *)
(* arithmetic is on fractions n / d with a common denominator d; a rating  *)
(* is held in tenths (4.5 is 45) and a stored score in tenths (8.3 is 83). *)
(***************************************************************************)

\* Math.round(n / d) for n >= 0 and d > 0: halves go up.
RoundDiv(n, d) == (n \div d) + (IF 2 * (n % d) >= d THEN 1 ELSE 0)

\* The apps of a search result.
AppRatings == {0, 45, 50}
AppCounts == {0, 50000, 1000000}
Apps == [rating : AppRatings, ratingCount : AppCounts]
SearchResults == UNION {[1..n -> Apps] : n \in 0..MaxApps}

\* The entry suggestions.find returns: none, or one with its position and
\* its priority.
Matches ==
    {<< >>} \cup
    {<<[position |-> p, priority |-> q]>> : p \in {0, 1, 5, 10, 12},
                                            q \in {0, 1, 80, 100}}

\* keyword.length
KeywordLengths == {3, 6, 12}

Scores == 0..ScoreMax

RECURSIVE SumRating(_)
\* reduce((sum, app) => sum + (app.rating || 0), 0), in tenths
SumRating(apps) ==
    IF apps = << >> THEN 0 ELSE apps[1].rating + SumRating(Tail(apps))

RECURSIVE SumRatingCount(_)
\* reduce((sum, app) => sum + (app.ratingCount || 0), 0)
SumRatingCount(apps) ==
    IF apps = << >> THEN 0
    ELSE apps[1].ratingCount + SumRatingCount(Tail(apps))

RECURSIVE TopSum(_)
\* The sum of ratingScore * 0.3 + countScore * 0.7 over topApps, as a
\* multiple of 1 / 5000000.
TopSum(apps) ==
    IF apps = << >> THEN 0
    ELSE 30000 * apps[1].rating + 7 * Min(apps[1].ratingCount, 500000)
         + TopSum(Tail(apps))

\* calculateDifficulty with the sum over topApps divided by div.
DifficultyOver(searchResults, div) ==
    IF Len(searchResults) = 0 THEN 10
    ELSE LET n == Len(searchResults)
             d == 3000000 * n
             avgRating == 3 * SumRating(searchResults) * 300000
             avgRatingCount ==
                 35 * 30 * Min(SumRatingCount(searchResults), 100000 * n)
             topAppStrength ==
                 (18 * n * TopSum(Take(searchResults, 3))) \div div
             competitorCount == 2 * Min(n, 10) * d
         IN  RoundDiv(Min(avgRating + avgRatingCount + topAppStrength
                          + competitorCount, 100 * d), d)

calculateDifficulty(searchResults) == DifficultyOver(searchResults, 3)

\* Keyword length factor, with the bonus of the short keywords for every
\* keyword of at most 10 characters.
LengthFactorShort(len) == IF len <= 10 THEN 10 ELSE 0

\* Keyword length factor.
LengthFactor(len) == IF len <= 5 THEN 10 ELSE IF len <= 10 THEN 5 ELSE 0

estimatePopularity(len, match, searchResults) ==
    LET n == Len(searchResults)
        d == 20000 * Max(n, 1)
        position ==
            IF match = << >> THEN 0
            ELSE Max(0, 50 - match[1].position * 5) * d
        priority ==
            IF match = << >> THEN 0
            ELSE IF match[1].priority = 0 THEN 0
            ELSE Min(match[1].priority * (d \div 2), 25 * d)
        quality ==
            IF n > 0 THEN Min(2 * SumRatingCount(searchResults), 20 * d)
            ELSE 0
    IN  Min(RoundDiv(5 * d + position + priority + quality
                     + LengthFactor(len) * d, d), 100)

\* diffScore * 0.4 * 100 with a middle band that starts at 1.0.
DiffScoreFromOne(difficulty) ==
    IF difficulty <= 30 THEN 600
    ELSE IF difficulty <= 60 THEN 600 - 14 * (difficulty - 30)
    ELSE 180

\* diffScore * 0.4 * 100, as a multiple of 1 / 15.
DiffScore(difficulty) ==
    IF difficulty <= 30 THEN 600
    ELSE IF difficulty <= 60 THEN 420 - 8 * (difficulty - 30)
    ELSE 180

calculateOpportunityScore(popularity, difficulty) ==
    RoundDiv(9 * popularity + DiffScore(difficulty), 15)

\* The opportunityScore rounded to a whole number.
StoredScoreWhole(popularity, difficulty) ==
    IF difficulty > 0 THEN 10 * RoundDiv(popularity * 10, difficulty) ELSE 0

\* The opportunityScore executeCycle stores, in tenths.
StoredOpportunityScore(popularity, difficulty) ==
    IF difficulty > 0 THEN RoundDiv(popularity * 100, difficulty) ELSE 0

\* The calls looked at.
ScoreCalls ==
    {[CalcIdle EXCEPT !.fn = "calculateDifficulty", !.apps = a] :
        a \in SearchResults}
    \cup {[CalcIdle EXCEPT !.fn = "estimatePopularity", !.len = l,
                           !.match = m, !.apps = a] :
            l \in KeywordLengths, m \in Matches, a \in SearchResults}
    \cup {[CalcIdle EXCEPT !.fn = f, !.popularity = p, !.difficulty = dd] :
            f \in {"calculateOpportunityScore", "executeCycle"},
            p \in Scores, dd \in Scores}

InitScoring ==
    /\ jobs = [j \in JobIds |-> NoRow("none")]
    /\ results = EmptyBag
    /\ runs = << >>
    /\ tasks = EmptyBag
    /\ calls = EmptyBag
    /\ runningJobs = [j \in JobIds |-> NoRun]
    /\ initQ = << >>
    /\ nCalls = 0
    /\ nTicks = 0
    /\ nRestarts = 0
    /\ maxStarted = [j \in JobIds |-> 0]
    /\ atStop = [j \in JobIds |-> NoStop]
    /\ resp = NoResp
    /\ gen = GenIdle
    /\ calc \in ScoreCalls

Returns(fn, v) ==
    /\ calc.fn = fn
    /\ calc.out = << >>
    /\ calc' = [calc EXCEPT !.out = <<v>>]
    /\ UNCHANGED <<serviceVars, gen>>

DifficultyReturns ==
    Returns("calculateDifficulty", calculateDifficulty(calc.apps))

PopularityReturns ==
    Returns("estimatePopularity",
            estimatePopularity(calc.len, calc.match, calc.apps))

OpportunityReturns ==
    Returns("calculateOpportunityScore",
            calculateOpportunityScore(calc.popularity, calc.difficulty))

StoredScoreReturns ==
    Returns("executeCycle",
            StoredOpportunityScore(calc.popularity, calc.difficulty))

Scoring ==
    \/ DifficultyReturns
    \/ PopularityReturns
    \/ OpportunityReturns
    \/ StoredScoreReturns

SpecScoring == InitScoring /\ [][Scoring]_vars

\* A process in which no job is ever stopped or deleted, with longer jobs
\* and larger batches: the cycles of one job, tick after tick.
ServeUninterrupted ==
    \/ \E j \in JobIds, total \in 1..LongCycles, batch \in 1..LongBatch :
          CreateJob(j, total, batch)
    \/ \E j \in JobIds : StartFind(j)
    \/ \E c \in BagToSet(calls) : StartUpdate(c)
    \/ \E t \in BagToSet(tasks) :
          \E kws \in GenResults(LongBatch, << >>) : GenReturn(t, kws)
    \/ \E t \in BagToSet(tasks), ok \in BOOLEAN : SaveResult(t, ok)
    \/ \E t \in BagToSet(tasks) : SleepReturn(t)
    \/ \E t \in BagToSet(tasks), ok \in BOOLEAN : Commit(t, ok)
    \/ \E r \in 1..Len(runs) : TickFire(r)
    \/ \E t \in BagToSet(tasks) : TickRead(t)
    \/ \E t \in BagToSet(tasks) : CompleteJob(t)

SpecNoStop == Init /\ [][ServeUninterrupted]_vars

\* The steps the event loop takes by itself: answers of the store and of the
\* provider, and timers that fire.
StartAnswers == \E c \in BagToSet(calls) : StartUpdate(c)
ProviderReturns ==
    \E t \in BagToSet(tasks) :
        \E kws \in GenResults(LongBatch, << >>) : GenReturn(t, kws)
AnalysisReturns == \E t \in BagToSet(tasks), ok \in BOOLEAN : SaveResult(t, ok)
SleepEnds == \E t \in BagToSet(tasks) : SleepReturn(t)
CommitAnswers == \E t \in BagToSet(tasks), ok \in BOOLEAN : Commit(t, ok)
TimerFires == \E r \in 1..Len(runs) : TickFire(r)
TickAnswers == \E t \in BagToSet(tasks) : TickRead(t)
CompleteAnswers == \E t \in BagToSet(tasks) : CompleteJob(t)

\* A job that is created, started once and then left alone, with a timer
\* that can fire once for each of its cycles.
ServeToTheEnd ==
    \/ \E j \in JobIds, total \in 1..MaxTicks, batch \in 1..LongBatch :
          CreateJob(j, total, batch)
    \/ \E j \in JobIds :
          jobs[j].status = "pending" /\ calls = EmptyBag /\ StartFind(j)
    \/ StartAnswers
    \/ ProviderReturns
    \/ AnalysisReturns
    \/ SleepEnds
    \/ CommitAnswers
    \/ TimerFires
    \/ TickAnswers
    \/ CompleteAnswers

\* Every awaited call is answered and every armed timer fires.
Fairness ==
    /\ WF_vars(StartAnswers)
    /\ WF_vars(ProviderReturns)
    /\ WF_vars(AnalysisReturns)
    /\ WF_vars(SleepEnds)
    /\ WF_vars(CommitAnswers)
    /\ WF_vars(TimerFires)
    /\ WF_vars(TickAnswers)
    /\ WF_vars(CompleteAnswers)

SpecToTheEnd == Init /\ [][ServeToTheEnd]_vars /\ Fairness

----------------------------------------------------------------------------
\* Helpers of the properties.

\* The executeCycle invocations of job j that this step begins.
NewCyclesOf(j) ==
    {t \in BagToSet(tasks') :
        /\ t.pc = "gen"
        /\ runs'[t.run].job = j
        /\ CopiesIn(t, tasks') > CopiesIn(t, tasks)}

ArmedRuns(j) == {r \in 1..Len(runs) : runs[r].job = j /\ runs[r].timer = "armed"}

----------------------------------------------------------------------------
\* C1: for every job at most one executeCycle is in progress at any moment.
C1_AtMostOneCycleInProgress ==
    \A j \in JobIds : CyclesInProgress(j) <= 1

\* C2: every cycle execution of a job uses a cycle number strictly greater
\* than that of every earlier cycle execution of the job (checked within
\* one process, where no execution is cut off by the process stopping).
C2_CycleNumbersNeverReused ==
    [][\A j \in JobIds : \A t \in NewCyclesOf(j) : t.cyc > maxStarted[j]]_vars

\* C3: every job has 0 <= currentCycle <= totalCycles, and no cycle with a
\* number above totalCycles is ever executed (by start, tick or resumption).
C3_CycleWithinTotal ==
    \A j \in JobIds :
        /\ Exists(j) => /\ jobs[j].currentCycle \in 0..jobs[j].totalCycles
                        /\ maxStarted[j] <= jobs[j].totalCycles
        /\ \A t \in TasksOf(j) :
              t.pc \in CyclePcs => t.cyc \in 1..runs[t.run].total

\* C3 witness: after a restart, a timer callback executes the last cycle of
\* a job of more than one cycle.
C3_Witness ==
    \E j \in JobIds : \E t \in TasksOf(j) :
        /\ nRestarts = 1
        /\ t.kind = "tick" /\ t.pc \in CyclePcs
        /\ Exists(j) /\ jobs[j].totalCycles > 1
        /\ t.cyc = jobs[j].totalCycles

\* C4: a job whose status is completed has currentCycle = totalCycles.
C4_CompletedImpliesAllCycles ==
    \A j \in JobIds :
        jobs[j].status = "completed" =>
            jobs[j].currentCycle = jobs[j].totalCycles

\* C5 as claimed: a job whose stored currentCycle equals totalCycles has
\* status completed.
C5_AllCyclesImpliesCompleted ==
    \A j \in JobIds :
        Exists(j) /\ jobs[j].currentCycle = jobs[j].totalCycles =>
            jobs[j].status = "completed"

\* C5 amended: a job whose stored currentCycle equals totalCycles is
\* completed, or still running or paused (the commit of the last cycle does
\* not mark the job completed; a later tick, start or resumption does).
C5_AllCyclesImpliesStarted ==
    \A j \in JobIds :
        Exists(j) /\ jobs[j].currentCycle = jobs[j].totalCycles =>
            jobs[j].status \in {"running", "paused", "completed"}

\* C5 witness: the last cycle is committed and the job is still running.
C5_Witness ==
    \E j \in JobIds :
        /\ Exists(j) /\ jobs[j].currentCycle = jobs[j].totalCycles
        /\ jobs[j].status = "running"
        /\ ArmedRuns(j) # {}

\* C6: every change of a job's stored status follows an edge of the
\* lifecycle pending -> running -> paused -> running -> completed.
LifecycleEdges ==
    {<<"pending", "running">>, <<"running", "paused">>,
     <<"paused", "running">>, <<"running", "completed">>}

C6_StatusFollowsLifecycle ==
    [][\A j \in JobIds :
          (Exists(j) /\ jobs'[j].status \notin {"none", "deleted"}
              /\ jobs'[j].status # jobs[j].status)
          => <<jobs[j].status, jobs'[j].status>> \in LifecycleEdges]_vars

\* C7: while a job is completed, a timer that fires for it and the callback
\* that reads its row change neither its status nor its Result rows and
\* begin no cycle.
C7_TicksLeaveCompletedAlone ==
    [][\A j \in JobIds :
          (/\ jobs[j].status = "completed"
           /\ \/ nTicks' > nTicks
              \/ resp'.op = "tick" /\ resp'.job = j)
          => /\ jobs'[j] = jobs[j]
             /\ results' = results
             /\ NewCyclesOf(j) = {}]_vars

\* C7 witness: the callback of a still armed timer has read a completed job.
C7_Witness ==
    \E j \in JobIds :
        /\ jobs[j].status = "completed"
        /\ resp = Resp("tick", j, "quit")

\* What a refused request leaves alone: the store, the cycles, the timers.
Untouched ==
    UNCHANGED <<jobs, results, runs, tasks, calls, runningJobs, initQ,
                maxStarted>>

\* The step is startJob / stopJob answering its findUnique for job j.
StartAttempt(j) == nCalls' > nCalls /\ resp'.op = "start" /\ resp'.job = j
StopAttempt(j) == nCalls' > nCalls /\ resp'.op = "stop" /\ resp'.job = j

\* C8: start fails with NotFound on an absent job and with AlreadyRunning
\* on a running one, stop fails with NotFound on an absent job and with
\* NotRunning on one that is not running; a failing start or stop changes
\* no stored state, starts no cycle and arms or cancels no timer.
C8_RefusedStartStop ==
    [][\A j \in JobIds :
          /\ StartAttempt(j) =>
                /\ ~Exists(j) => resp'.res = "NotFound"
                /\ Exists(j) /\ jobs[j].status = "running"
                      => resp'.res = "AlreadyRunning"
                /\ resp'.res \in {"NotFound", "AlreadyRunning"} => Untouched
          /\ StopAttempt(j) =>
                /\ ~Exists(j) => resp'.res = "NotFound"
                /\ Exists(j) /\ jobs[j].status # "running"
                      => resp'.res = "NotRunning"
                /\ resp'.res \in {"NotFound", "NotRunning"} => Untouched]_vars

\* C8 witness: a stop was refused for a paused job whose timer is armed, and
\* the timer is still armed.
C8_Witness ==
    \E j \in JobIds :
        /\ resp = Resp("stop", j, "NotRunning")
        /\ jobs[j].status = "paused"
        /\ ArmedRuns(j) # {}

\* A successful stop, step by step: the findUnique step cancels the
\* registered timer and nothing else; the update step writes the status
\* and nothing else.
StopFrame(j) ==
    /\ resp' = Resp("stop", j, "Found") =>
          /\ UNCHANGED <<jobs, results, tasks>>
          /\ runningJobs'[j] = NoRun
          /\ \A r \in ArmedRuns(j) :
                IF r = runningJobs[j]
                THEN ~(r <= Len(runs') /\ runs'[r].timer = "armed")
                ELSE r <= Len(runs') /\ runs'[r] = runs[r]
    /\ resp' = Resp("stop", j, "Stopped") =>
          /\ jobs'[j] = [jobs[j] EXCEPT !.status = "paused"]
          /\ jobs'[j].currentCycle = jobs[j].currentCycle
          /\ jobs'[j].usedKeywords = jobs[j].usedKeywords
          /\ UNCHANGED <<results, runs, tasks, runningJobs>>

\* This step's start of job j begins executing cycle n on the array used.
StartBeginsCycle(j, n, used) ==
    \E t \in NewCyclesOf(j) :
        t.kind = "first" /\ t.cyc = n /\ runs'[t.run].used = used

\* C9 as claimed: a successful stop changes only the status and cancels the
\* timer, and the next start executes cycle currentCycle+1 on the
\* used-keyword set that the stop left in the row.
C9_StopThenStartResumes ==
    [][\A j \in JobIds :
          /\ StopFrame(j)
          /\ (resp' = Resp("start", j, "Started")
                 /\ atStop[j].stopped /\ ~atStop[j].resumed)
             => StartBeginsCycle(j, atStop[j].currentCycle + 1,
                                 atStop[j].usedKeywords)]_vars

\* C9 amended: a successful stop changes only the status and cancels the
\* registered timer; a later start executes cycle c+1 on the used-keyword
\* set u, where c and u are the currentCycle and usedKeywords that start
\* read from the row, if c < totalCycles, and otherwise executes no cycle.
C9_StopThenStartResumesFromRow ==
    [][\A j \in JobIds :
          /\ StopFrame(j)
          /\ resp' = Resp("start", j, "Started") =>
                \E c \in BagToSet(calls) :
                   /\ c.op = "start" /\ c.job = j
                   /\ CopiesIn(c, calls') < CopiesIn(c, calls)
                   /\ IF c.snap.currentCycle < c.snap.totalCycles
                      THEN StartBeginsCycle(j, c.snap.currentCycle + 1,
                                            c.snap.usedKeywords)
                      ELSE NewCyclesOf(j) = {}]_vars

\* C9 witness: a job stopped after its first cycle was started again and
\* executes cycle 2 on the keywords of cycle 1.
C9_Witness ==
    \E j \in JobIds : \E t \in TasksOf(j) :
        /\ resp = Resp("start", j, "Started")
        /\ atStop[j].stopped /\ atStop[j].resumed
        /\ atStop[j].currentCycle = 1 /\ atStop[j].usedKeywords # << >>
        /\ t.kind = "first" /\ t.pc = "gen" /\ t.cyc = 2
        /\ runs[t.run].used = atStop[j].usedKeywords

\* C10: once a job is deleted, no timer of it is armed and no Result row
\* of it exists.
C10_NothingLeftAfterDelete ==
    \A j \in JobIds :
        jobs[j].status = "deleted" => ArmedRuns(j) = {} /\ RowsOf(j) = {}

\* C11: a job has an armed repeating timer only if its stored status is
\* running.
C11_TimerOnlyWhileRunning ==
    \A j \in JobIds : ArmedRuns(j) # {} => jobs[j].status = "running"

\* The tasks of job j after this step.
TasksAfter(j) == {t \in BagToSet(tasks') : runs'[t.run].job = j}

\* Job j waits in the list of initialize() after this step.
QueuedAfter(j) == \E n \in 1..Len(initQ') : initQ'[n].id = j

HasCaseDuplicate(arr) ==
    \E a, b \in 1..Len(arr) : a # b /\ Lower(arr[a]) = Lower(arr[b])

\* C13: the stored usedKeywords of a job never contains two entries that
\* are equal ignoring case.
C13_UsedKeywordsDistinct ==
    \A j \in JobIds : ~HasCaseDuplicate(jobs[j].usedKeywords)

\* C14: the length of the stored usedKeywords of a job never decreases
\* from one state to the next.
C14_UsedKeywordsNeverShrink ==
    [][\A j \in JobIds :
          Exists(j) /\ jobs'[j].status \notin {"none", "deleted"} =>
              Len(jobs'[j].usedKeywords) >= Len(jobs[j].usedKeywords)]_vars

\* The task t of job j that this step takes out of the bag.
Leaves(t, j) ==
    /\ runs[t.run].job = j
    /\ CopiesIn(t, tasks') < CopiesIn(t, tasks)

\* The task t2 is what this step makes of task t.
Becomes(t, t2) ==
    /\ t2.run = t.run /\ t2.kind = t.kind /\ t2.cyc = t.cyc
    /\ CopiesIn(t2, tasks') > CopiesIn(t2, tasks)

\* The keywords after kws[i] that are not in used (ignoring case).
Remaining(used, kws, i) ==
    {n \in (i + 1)..Len(kws) : ~Includes(used, Lower(kws[n]))}

\* C15: when the analysis of a keyword fails, exactly one Result row with
\* status error is stored for that keyword and cycle, the cycle goes on with
\* the remaining generated keywords, and at its end the cycle commits
\* currentCycle and usedKeywords.
C15_KeywordFailureIsAbsorbed ==
    [][\A j \in JobIds :
          /\ resp' = Resp("analyze", j, "error") =>
                \E t \in BagToSet(tasks) :
                   /\ t.pc = "analyze" /\ Leaves(t, j)
                   /\ results' = results (+)
                         SetToBag({Row(j, t.kws[t.i], t.cyc, "error")})
                   /\ jobs' = jobs
                   /\ \E t2 \in BagToSet(tasks') :
                         /\ Becomes(t, t2)
                         /\ LET rest == Remaining(runs[t.run].used, t.kws, t.i)
                            IN IF rest # {}
                               THEN /\ t2.pc = "analyze" /\ t2.kws = t.kws
                                    /\ t2.i \in rest
                                    /\ \A n \in rest : t2.i <= n
                               ELSE /\ t2.pc = "commit"
                                    /\ t2.snap = runs[t.run].used
          /\ resp' = Resp("commit", j, "committed") =>
                \E t \in BagToSet(tasks) :
                   /\ t.pc = "commit" /\ Leaves(t, j)
                   /\ jobs'[j] = [jobs[j] EXCEPT !.currentCycle = t.cyc,
                                                 !.usedKeywords = t.snap]]_vars

\* C15 witness: a cycle of two keywords whose first analysis failed and
\* whose second succeeded has committed.
C15_Witness ==
    \E j \in JobIds : \E c \in 1..LongCycles :
        /\ resp = Resp("commit", j, "committed")
        /\ jobs[j].currentCycle = c
        /\ \E e, g \in RowsOf(j) :
              /\ e.cycleNumber = c /\ e.status = "error"
              /\ g.cycleNumber = c /\ g.status = "success"
              /\ Lower(g.keyword) \in {jobs[j].usedKeywords[n] :
                                         n \in 1..Len(jobs[j].usedKeywords)}

\* C16: a keyword whose analysis failed in a cycle is in the stored
\* usedKeywords once that cycle has committed, so that no later cycle
\* analyses it again.
C16_FailedKeywordIsUsed ==
    \A j \in JobIds : \A row \in RowsOf(j) :
        (/\ row.status = "error"
         /\ resp = Resp("commit", j, "committed")
         /\ row.cycleNumber = jobs[j].currentCycle)
        => Includes(jobs[j].usedKeywords, Lower(row.keyword))

\* C17: no job ever has status failed; a cycle that fails outside the
\* per-keyword handling (its final store write fails) leaves the row, the
\* status and the timer as they are, every firing of the timer counts one
\* cycle further, and the callback that finds the job running with cycles
\* left executes the cycle of that number.
C17_CycleFailureKeepsRunning ==
    [][\A j \in JobIds :
          /\ jobs'[j].status # "failed"
          /\ (resp' = Resp("commit", j, "failed") /\ Exists(j)) =>
                \E t \in BagToSet(tasks) :
                   /\ t.pc = "commit" /\ Leaves(t, j)
                   /\ jobs' = jobs /\ results' = results
                   /\ IF t.kind = "first"
                      THEN /\ runs'[t.run].timer = "armed"
                           /\ runs'[t.run].cycleCount = t.cyc
                      ELSE runs[t.run].timer = "armed"
                              => runs'[t.run] = runs[t.run]
          /\ nTicks' > nTicks =>
                \E r \in 1..Len(runs) :
                   /\ runs[r].timer = "armed"
                   /\ runs' = [runs EXCEPT ![r].cycleCount = @ + 1]
          /\ resp'.op = "tick" /\ resp'.job = j =>
                \E t \in BagToSet(tasks) :
                   /\ t.pc = "read" /\ Leaves(t, j)
                   /\ IF /\ jobs[j].status = "running"
                         /\ runs[t.run].cycleCount <= runs[t.run].total
                      THEN \E t2 \in NewCyclesOf(j) :
                              /\ t2.run = t.run /\ t2.kind = "tick"
                              /\ t2.cyc = runs[t.run].cycleCount
                              /\ jobs' = jobs
                      ELSE NewCyclesOf(j) = {}]_vars

\* C17 witness: the store write that ends cycle 1 failed (a row of cycle 1
\* is stored, currentCycle is still 0, no cycle is waiting for its write),
\* the job is running and a timer callback executes cycle 2.
C17_Witness ==
    \E j \in JobIds : \E t \in TasksOf(j) :
        /\ jobs[j].status = "running" /\ jobs[j].currentCycle = 0
        /\ \E row \in RowsOf(j) : row.cycleNumber = 1 /\ row.status = "success"
        /\ \A u \in TasksOf(j) : u.pc # "commit"
        /\ nRestarts = 0 /\ nCalls = 1
        /\ t.kind = "tick" /\ t.pc = "gen" /\ t.cyc = 2
        /\ resp = Resp("tick", j, "cycle")

\* C18: generateKeywords returns at most count keywords, and none of them
\* is, after lower-casing and trimming, in the usedKeywords it was given.
C18_GenerateWithinCountAndUnused ==
    gen.pc = "done" =>
        /\ Len(gen.out) <= gen.count
        /\ \A n \in 1..Len(gen.out) : ~Includes(gen.used, Norm(gen.out[n]))

\* C18 witness: the provider suggested a used keyword, more unused keywords
\* were collected than asked for, and count keywords are returned.
C18_Witness ==
    /\ gen.pc = "done"
    /\ \E k \in gen.offered : Includes(gen.used, Norm(k))
    /\ Len(Unique(gen.keywords)) > gen.count
    /\ Len(gen.out) = gen.count

\* C19: the keywords generateKeywords returns are lower-cased and trimmed,
\* and pairwise different after lower-casing and trimming.
C19_GenerateNormalizedDistinct ==
    gen.pc = "done" =>
        /\ \A n \in 1..Len(gen.out) : gen.out[n] = Norm(gen.out[n])
        /\ \A a, b \in 1..Len(gen.out) :
              a # b => Norm(gen.out[a]) # Norm(gen.out[b])

\* The number of Result rows of job j that carry cycle number c.
RowsOfCycle(j, c) ==
    LET S == {row \in RowsOf(j) : row.cycleNumber = c}
        RECURSIVE Sum(_)
        Sum(T) == IF T = {} THEN 0
                  ELSE LET x == CHOOSE y \in T : TRUE
                       IN CopiesIn(x, results) + Sum(T \ {x})
    IN Sum(S)

\* C20: for every job and cycle number, the Result rows of the job with that
\* cycle number are at most searchesPerBatch.
C20_RowsPerCycleWithinBatch ==
    \A j \in JobIds : \A c \in 1..LongCycles :
        Exists(j) => RowsOfCycle(j, c) <= jobs[j].searchesPerBatch

\* C21: no two Result rows of a job carry the same keyword, compared
\* ignoring case.
C21_NoKeywordSearchedTwice ==
    \A j \in JobIds : \A x, y \in RowsOf(j) :
        /\ CopiesIn(x, results) <= 1
        /\ x # y => Lower(x.keyword) # Lower(y.keyword)

\* The field f is given and is not in lo..hi.
Outside(f, lo, hi) == IF f = << >> THEN FALSE ELSE f[1] < lo \/ f[1] > hi

\* The config cfg is out of the bounds of create.
OutOfBounds(cfg) ==
    \/ Outside(cfg.searchesPerBatch, 1, 10)
    \/ Outside(cfg.intervalMinutes, 1, 1440)
    \/ Outside(cfg.totalCycles, 1, 1000)
    \/ cfg.strategy \in {<<"other">>}

\* C22: create rejects a config with searchesPerBatch outside 1..10,
\* intervalMinutes outside 1..1440, totalCycles outside 1..1000 or an unknown
\* strategy, and then persists nothing; a valid config persists exactly one
\* new job, pending, with currentCycle 0, totalKeywords 0 and no used
\* keywords, arms no timer and changes no other job.
C22_CreateValidatesAndPersists ==
    [][resp'.op = "create" =>
          IF OutOfBounds(resp'.cfg)
          THEN resp'.res = "Invalid" /\ jobs' = jobs
          ELSE /\ UNCHANGED <<results, runs, tasks, runningJobs>>
               /\ resp'.cfg.name = <<"n">> => resp'.res = "Created"
               /\ resp'.res = "Created" =>
                     \E j \in PostIds :
                        /\ jobs[j].status = "none"
                        /\ jobs'[j].status = "pending"
                        /\ jobs'[j].currentCycle = 0
                        /\ jobs'[j].totalKeywords = 0
                        /\ jobs'[j].usedKeywords = << >>
                        /\ \A k \in PostIds \ {j} : jobs'[k] = jobs[k]]_vars

\* C22 witness: a second job was created from a valid config with the
\* largest values, beside a first job that is as it was created.
C22_Witness ==
    /\ resp.op = "create" /\ resp.res = "Created" /\ resp.job = "j2"
    /\ resp.cfg.totalCycles = <<1000>> /\ resp.cfg.searchesPerBatch = <<10>>
    /\ jobs["j1"].status = "pending" /\ jobs["j2"].status = "pending"
    /\ jobs["j2"].totalCycles = 1000

----------------------------------------------------------------------------
\* The app of the example: rating 4.5 with 1,000,000 ratings.
ExampleApp == [rating |-> 45, ratingCount |-> 1000000]

\* The difficulty with the strength of the top apps averaged over the top
\* apps that are present.
DifficultyOverPresent(searchResults) ==
    DifficultyOver(searchResults, Min(Len(searchResults), 3))

\* C23: calculateDifficulty returns 79 for one app of rating 4.5 with
\* 1,000,000 ratings, for every list the rounded sum of 15% average rating
\* over 5, 35% average rating count over 100,000 (at most 1), 30% strength
\* of the top apps averaged over the top apps present, and 20% of the number
\* of apps over 10 (at most 1), an integer of 0..100, and 10 for no result.
C23_DifficultyAsDescribed ==
    (calc.fn = "calculateDifficulty" /\ calc.out # << >>) =>
        /\ calc.out[1] \in 0..100
        /\ calc.apps = << >> => calc.out[1] = 10
        /\ calc.apps = <<ExampleApp>> => calc.out[1] = 79
        /\ calc.apps \notin {<< >>, <<ExampleApp>>} =>
              calc.out[1] = DifficultyOverPresent(calc.apps)

\* The call of the example: a keyword of 6 characters matched at position 1
\* with priority 80, and results whose average rating count is 50,000.
PopularityExample ==
    /\ calc.fn = "estimatePopularity"
    /\ calc.len = 6
    /\ calc.match = <<[position |-> 1, priority |-> 80]>>
    /\ Len(calc.apps) > 0
    /\ SumRatingCount(calc.apps) = 50000 * Len(calc.apps)

\* C24 as stated: estimatePopularity returns 100 for the example, and for
\* every input an integer of 5..100.
C24_PopularityExampleIs100 ==
    (calc.fn = "estimatePopularity" /\ calc.out # << >>) =>
        /\ calc.out[1] \in 5..100
        /\ PopularityExample => calc.out[1] = 100

\* C24: estimatePopularity returns 85 (5 + 45 + 25 + 5 + 5) for a keyword of
\* 6 characters matched at position 1 with priority 80 and results whose
\* average rating count is 50,000, and for every input an integer of 5..100.
C24_PopularityExampleIs85 ==
    (calc.fn = "estimatePopularity" /\ calc.out # << >>) =>
        /\ calc.out[1] \in 5..100
        /\ PopularityExample => calc.out[1] = 85

C24_Witness == PopularityExample /\ calc.out = <<85>>

\* The score with a difficulty share that falls linearly from 1.0 at
\* difficulty 30 to 0.3 at difficulty 60.
OpportunityFromOne(popularity, difficulty) ==
    RoundDiv(9 * popularity + DiffScoreFromOne(difficulty), 15)

\* C25 as stated: for popularity and difficulty in 0..100,
\* calculateOpportunityScore
\* is round(0.6 * popularity + 40 * diffScore), where diffScore is 1.0 up to
\* difficulty 30, falls linearly from 1.0 at 30 to 0.3 at 60, and is 0.3
\* above 60.
C25_OpportunityFallsFromOne ==
    (calc.fn = "calculateOpportunityScore" /\ calc.out # << >>) =>
        calc.out[1] = OpportunityFromOne(calc.popularity, calc.difficulty)

Abs(x) == IF x >= 0 THEN x ELSE 0 - x

\* v is an integer nearest to n / d.
Nearest(v, n, d) == 2 * Abs(v * d - n) <= d

\* C25: for popularity and difficulty in 0..100, calculateOpportunityScore
\* is round(0.6 * popularity + 40 * diffScore), where diffScore is 1.0 up to
\* difficulty 30, is 0.7 - 0.4 * (difficulty - 30) / 30 for
\* 30 < difficulty <= 60 (from just under 0.7 down to 0.3), and is 0.3
\* above 60.
C25_OpportunityFallsFromSevenTenths ==
    (calc.fn = "calculateOpportunityScore" /\ calc.out # << >>) =>
        LET d == calc.difficulty
            share == IF d <= 30 THEN 3000
                     ELSE IF d <= 60 THEN 2100 - 40 * (d - 30)
                     ELSE 900
        IN  Nearest(calc.out[1], 45 * calc.popularity + share, 75)

C25_Witness ==
    /\ calc.fn = "calculateOpportunityScore"
    /\ calc.popularity = 50
    /\ calc.difficulty = 45
    /\ calc.out = <<50>>

\* round((popularity / difficulty) * 10) with a difficulty of 0 taken as 1,
\* in tenths.
RoundedRatio(popularity, difficulty) ==
    10 * RoundDiv(popularity * 10, IF difficulty = 0 THEN 1 ELSE difficulty)

\* C26 as stated: the opportunity score stored with a successful result is
\* the integer
\* round((popularity / difficulty) * 10), the difficulty taken as 1 when it
\* is zero.
C26_StoredScoreIsRoundedRatio ==
    (calc.fn = "executeCycle" /\ calc.out # << >>) =>
        calc.out[1] = RoundedRatio(calc.popularity, calc.difficulty)

\* C26: the opportunity score stored with a successful result is
\* (popularity / difficulty) * 10 rounded to one decimal place, and 0 when
\* the difficulty is zero.
C26_StoredScoreHasOneDecimal ==
    (calc.fn = "executeCycle" /\ calc.out # << >>) =>
        IF calc.difficulty = 0 THEN calc.out[1] = 0
        ELSE Nearest(calc.out[1], 100 * calc.popularity, calc.difficulty)

C26_Witness ==
    /\ calc.fn = "executeCycle"
    /\ calc.popularity = 50
    /\ calc.difficulty = 60
    /\ calc.out = <<83>>

----------------------------------------------------------------------------
\* C27: the stored currentCycle of a job never decreases from one state to
\* the next.
C27_CurrentCycleNeverDecreases ==
    [][\A j \in JobIds :
          Exists(j) /\ jobs'[j].status \notin {"none", "deleted"} =>
              jobs'[j].currentCycle >= jobs[j].currentCycle]_vars

----------------------------------------------------------------------------
\* Job j was stopped successfully and no start has succeeded since, before
\* and after this step.
StaysStopped(j) ==
    /\ atStop[j].stopped /\ ~atStop[j].resumed
    /\ atStop'[j] = atStop[j]

\* This step is the callback of a timer of job j reading a row that is not
\* running, or no row; t is the callback.
TickReadsNotRunning(t, j) ==
    /\ t.kind = "tick" /\ t.pc = "read"
    /\ Leaves(t, j)
    /\ resp'.op = "tick" /\ resp'.job = j
    /\ ~Exists(j) \/ jobs[j].status # "running"

----------------------------------------------------------------------------
\* C30: in every state a job has at most one armed repeating timer, and an
\* armed timer of a job is the one the runningJobs table holds for it.
C30_OneRegisteredTimer ==
    \A j \in JobIds :
        /\ Cardinality(ArmedRuns(j)) <= 1
        /\ \A r \in ArmedRuns(j) : runningJobs[j] = r

----------------------------------------------------------------------------
\* C29: when every awaited call is answered and every armed timer fires, a
\* job that is running and is never stopped or deleted is eventually
\* completed, whatever its cycles generate and however they end.
C29_StartedJobCompletes ==
    \A j \in JobIds :
        (jobs[j].status = "running") ~> (jobs[j].status = "completed")

\* C29 witness: a job is completed although none of its cycles committed.
C29_Witness ==
    \E j \in JobIds :
        /\ jobs[j].status = "completed"
        /\ jobs[j].totalCycles = MaxTicks
        /\ jobs[j].currentCycle = 0
        /\ maxStarted[j] = jobs[j].totalCycles

====
